---- MODULE Spec2Model ----
(***************************************************************************)
(* A model of unbox: conflict-resolving rename (src/src/utils.rs), the     *)
(* unpack helper and its commit (src/src/archive.rs), the archive readers  *)
(* (src/src/formats/*.rs), format detection (src/src/formats/mod.rs), the  *)
(* batch loop and main (src/src/cli.rs, src/src/main.rs) and the copy loop *)
(* (src/src/archive.rs).                                                   *)
(*                                                                         *)
(* A file name is a sequence of one-character strings; a path is a         *)
(* sequence of file names, <<>> being the root directory.                  *)
(***************************************************************************)
EXTENDS Integers, Sequences, FiniteSets, TLC

VARIABLES
    incrIn,     \* increment_string: the argument s
    incrOut,    \* increment_string: the returned string, <<>> before the call
    sniffIn,    \* for_path: the input file, its name and what reading its prefix gives
    sniffOut,   \* for_path: what was read behind the compression, and the result
    fs,         \* the file system: path |-> [kind, data], data the archive a node came from
    sameFs,     \* whether a rename from the temp area to the destination can succeed
    pc,         \* unpack_archives: "start", "unpacking", "committed", "failed" (Err
                \* returned), "done" (Ok returned)
    k,          \* unpack_archives: the number of the archive being processed
    helper,     \* the UnpackHelper of archive k: [reader, archive_base, dst, tmp]
    nfiles,     \* unpack_archives: the number of archives opened
    before,     \* the file system as it was when UnpackHelper::create was called
    published,  \* per committed archive, [intended, path]: the name wanted, the path returned
    reads,      \* copy_with_progress: what the calls of reader.read give, in order
    copy,       \* copy_with_progress: [pc, pos, written, progress, sink, err]
    taken,      \* rename_resolving_conflict: the names the parent directory of dst holds
    loop,       \* rename_resolving_conflict: its loop, [pc, basename, tried]
    args,       \* main: the command line, [mode, skip_unknown, files]
    run         \* main: [pc, i, archives, stdout, exit]

incrVars == <<incrIn, incrOut>>
sniffVars == <<sniffIn, sniffOut>>
unboxVars == <<fs, sameFs, nfiles, pc, k, helper, before, published>>
copyVars == <<reads, copy>>
loopVars == <<taken, loop>>
mainVars == <<args, run>>
vars == <<incrVars, sniffVars, unboxVars, copyVars, loopVars, mainVars>>

NoResult == "-"
None == "None"

\* nothing was read: the value of an input that is not there
NoBytes == [open |-> FALSE, read |-> FALSE, raw |-> "application/octet-stream",
            parents |-> <<>>]

\* sniffIn when there is no file, sniffOut before for_path has returned
NoFile == [name |-> <<>>, bytes |-> NoBytes]
NoSniff == [behind |-> FALSE, inner |-> NoBytes, result |-> NoResult]

\* no call of for_path is under way
SniffIdle == sniffIn = NoFile /\ sniffOut = NoSniff

\* no call of copy_with_progress is under way
NoCopy == [pc |-> "off", pos |-> 0, written |-> 0, progress |-> 0, sink |-> <<>>,
           err |-> None]
CopyIdle == reads = <<>> /\ copy = NoCopy

\* the loop of rename_resolving_conflict is not under way
NoLoop == [pc |-> "off", basename |-> <<>>, tried |-> <<>>]
LoopIdle == taken = {} /\ loop = NoLoop

\* main is not under way
NoArgs == [analyze |-> FALSE, list_formats |-> FALSE, skip_unknown |-> FALSE,
           files |-> <<>>]
NoRun == [pc |-> "off", i |-> 0, archives |-> <<>>, stdout |-> <<>>, exit |-> NoResult]
MainIdle == args = NoArgs /\ run = NoRun

----------------------------------------------------------------------------
(* Bounds of the model.                                                    *)

\* longest string handed to increment_string
MaxLen == 4

\* most archives of one run of unpack_archives
MaxArchives == 2

\* unpack reads a further entry while the scratch holds fewer nodes than this
MaxEntries == 3

\* most paths on the command line
MaxFiles == 2

\* most calls of reader.read before the end of the input
MaxReads == 3

\* most candidates of the loop of rename_resolving_conflict that may exist
MaxTaken == 2

\* no run of unpack_archives is under way
NoHelper == [reader |-> None, archive_base |-> <<>>, dst |-> <<>>, tmp |-> <<>>]
UnboxIdle ==
    /\ fs = <<>> /\ sameFs = FALSE /\ pc = "off" /\ k = 0 /\ helper = NoHelper
    /\ nfiles = 0 /\ before = <<>> /\ published = <<>>

----------------------------------------------------------------------------
(* src/src/utils.rs: increment_string                                      *)

DigitSeq == <<"0", "1", "2", "3", "4", "5", "6", "7", "8", "9">>

\* \d of INCR_REGEX
IsDigit(c) == \E i \in 1..10 : DigitSeq[i] = c

DigitVal(c) == (CHOOSE i \in 1..10 : DigitSeq[i] = c) - 1

\* caps[2].parse::<u64>(): the decimal value of a run of digits
RECURSIVE ParseNum(_)
ParseNum(ds) ==
    IF ds = <<>> THEN 0
    ELSE ParseNum(SubSeq(ds, 1, Len(ds) - 1)) * 10 + DigitVal(ds[Len(ds)])

\* format!("{}", n): decimal rendering, no padding
RECURSIVE FormatNum(_)
FormatNum(n) ==
    IF n < 10 THEN <<DigitSeq[n + 1]>>
    ELSE FormatNum(n \div 10) \o <<DigitSeq[(n % 10) + 1]>>

\* the last index of the run of digits that starts at index i
RECURSIVE RunEnd(_, _)
RunEnd(s, i) ==
    IF i < Len(s) /\ IsDigit(s[i + 1]) THEN RunEnd(s, i + 1) ELSE i

\* INCR_REGEX = ^(.+?)(\d+)(.*?)$ : group 1 is the shortest prefix of at
\* least one character that is followed by a digit, group 2 the whole run of
\* digits from there, group 3 the rest.  The result is the index where group
\* 2 starts, 0 when the regex does not match.
RegexDigitStart(s) ==
    LET starts == {i \in 2..Len(s) : IsDigit(s[i])}
    IN  IF starts = {} THEN 0
        ELSE CHOOSE i \in starts : \A j \in starts : i <= j

increment_string(s) ==
    LET i == RegexDigitStart(s)
    IN  IF i = 0 THEN s \o <<"-", "2">>
        ELSE LET j == RunEnd(s, i)
             IN  SubSeq(s, 1, i - 1)
                   \o FormatNum(ParseNum(SubSeq(s, i, j)) + 1)
                   \o SubSeq(s, j + 1, Len(s))

\* the characters the strings of IncrSpec are made of
Alphabet == {"f", "-", ".", "0", "2", "9"}

RECURSIVE StringsOfLen(_)
StringsOfLen(n) ==
    IF n = 0 THEN {<<>>}
    ELSE {Append(s, c) : s \in StringsOfLen(n - 1), c \in Alphabet}

Strings == UNION {StringsOfLen(n) : n \in 1..MaxLen}

\* no call of increment_string is under way
IncrIdle == incrIn = <<>> /\ incrOut = <<>>

IncrInit ==
    /\ incrIn \in Strings
    /\ incrOut = <<>>
    /\ SniffIdle /\ UnboxIdle /\ CopyIdle /\ LoopIdle /\ MainIdle

IncrCall ==
    /\ incrIn # <<>>
    /\ incrOut = <<>>
    /\ incrOut' = increment_string(incrIn)
    /\ UNCHANGED <<incrIn, sniffVars, unboxVars, copyVars, loopVars, mainVars>>

----------------------------------------------------------------------------
(* The file system calls of std::fs the program makes.  Each gives         *)
(* [ok, fs]: whether the call succeeded and the file system after it.      *)

Root == <<>>

Parent(p) == SubSeq(p, 1, Len(p) - 1)

Last(p) == p[Len(p)]

\* q is p or lies below p
IsUnder(q, p) == Len(p) <= Len(q) /\ SubSeq(q, 1, Len(p)) = p

\* Path::exists
Exists(f, p) == p \in DOMAIN f

IsDir(f, p) == Exists(f, p) /\ f[p].kind = "dir"

\* the direct children of directory d (fs::read_dir)
Kids(f, d) == {p \in DOMAIN f : Len(p) = Len(d) + 1 /\ IsUnder(p, d)}

Node(kind, data) == [kind |-> kind, data |-> data]

Put(f, p, node) == [q \in DOMAIN f \cup {p} |-> IF q = p THEN node ELSE f[q]]

Failed(f) == [ok |-> FALSE, fs |-> f]

Done(f) == [ok |-> TRUE, fs |-> f]

\* fs::create_dir
create_dir(f, p, data) ==
    IF ~Exists(f, p) /\ p # Root /\ IsDir(f, Parent(p))
    THEN Done(Put(f, p, Node("dir", data)))
    ELSE Failed(f)

\* fs::create_dir_all, for a path without ".."
RECURSIVE create_dir_all(_, _, _)
create_dir_all(f, p, data) ==
    IF Exists(f, p) THEN (IF IsDir(f, p) THEN Done(f) ELSE Failed(f))
    ELSE LET up == create_dir_all(f, Parent(p), data)
         IN  IF up.ok THEN create_dir(up.fs, p, data) ELSE Failed(f)

\* fs::File::create: a new file, or an existing file truncated
file_create(f, p, data) ==
    IF p # Root /\ IsDir(f, Parent(p)) /\ ~IsDir(f, p)
    THEN Done(Put(f, p, Node("file", data)))
    ELSE Failed(f)

\* fs::remove_dir: an empty directory
remove_dir(f, p) ==
    IF IsDir(f, p) /\ Kids(f, p) = {}
    THEN Done([q \in DOMAIN f \ {p} |-> f[q]])
    ELSE Failed(f)

\* fs::remove_dir_all
remove_dir_all(f, p) ==
    IF IsDir(f, p)
    THEN Done([q \in {r \in DOMAIN f : ~IsUnder(r, p)} |-> f[q]])
    ELSE Failed(f)

\* the temp area and the destination are on one file system, or p and q are
\* both on the same side
OneFileSystem(p, q, tmpdir, same) ==
    same \/ (IsUnder(p, tmpdir) <=> IsUnder(q, tmpdir))

\* fs::rename (rename(2)): src and all below it move to dst, replacing what
\* dst held; it fails across file systems
rename(f, src, dst, tmpdir, same) ==
    IF /\ Exists(f, src) /\ dst # Root /\ IsDir(f, Parent(dst))
       /\ ~IsUnder(dst, src)
       /\ OneFileSystem(src, dst, tmpdir, same)
    THEN LET kept == {q \in DOMAIN f : ~IsUnder(q, src) /\ ~IsUnder(q, dst)}
             moved == {dst \o SubSeq(q, Len(src) + 1, Len(q)) :
                          q \in {r \in DOMAIN f : IsUnder(r, src)}}
         IN  Done([q \in kept \cup moved |->
                     IF q \in moved
                     THEN f[src \o SubSeq(q, Len(dst) + 1, Len(q))]
                     ELSE f[q]])
    ELSE Failed(f)

----------------------------------------------------------------------------
(* src/src/utils.rs: rename_resolving_conflict                             *)

\* env::temp_dir()
TempDir == << <<"t", "m", "p">> >>

\* the loop of rename_resolving_conflict left after its first round, whether
\* or not the candidate exists
FirstFree_once(f, parent, basename) == increment_string(basename)

\* the loop of rename_resolving_conflict: the first of increment_string(basename),
\* increment_string of that, ... that does not exist in parent
RECURSIVE FirstFree(_, _, _)
FirstFree(f, parent, basename) ==
    LET new_basename == increment_string(basename)
    IN  IF ~Exists(f, Append(parent, new_basename)) THEN new_basename
        ELSE FirstFree(f, parent, new_basename)

\* rename_resolving_conflict with the test of dst left out: src is renamed to dst
rename_overwriting(f, src, dst, same) ==
    LET r == rename(f, src, dst, TempDir, same)
    IN  [ok |-> r.ok, fs |-> r.fs, path |-> dst]

\* [ok, fs, path]: path is the path returned when ok
rename_resolving_conflict(f, src, dst, same) ==
    IF ~Exists(f, dst)
    THEN LET r == rename(f, src, dst, TempDir, same)
         IN  [ok |-> r.ok, fs |-> r.fs, path |-> dst]
    ELSE LET new_dst == Append(Parent(dst), FirstFree(f, Parent(dst), Last(dst)))
             r == rename(f, src, new_dst, TempDir, same)
         IN  [ok |-> r.ok, fs |-> r.fs, path |-> new_dst]

----------------------------------------------------------------------------
(* src/src/utils.rs: TempDirectory                                         *)

\* format!(".unbox-{}", Uuid::new_v4()): a name no other call gives; n numbers the calls
ScratchName(n) == <<".", "u", "n", "b", "o", "x", "-">> \o FormatNum(n)

\* TempDirectory::for_path(dst), dst a path in directory parent that exists:
\* [ok, fs, tmp].  data marks the directories made.
for_path_temp(f, parent, n, same, data) ==
    LET basename == ScratchName(n)
        tmp == Append(TempDir, basename)
        dummy_path == Append(parent, basename)
        made == create_dir(f, tmp, data)
        moved == IF made.ok THEN rename(made.fs, tmp, dummy_path, TempDir, same)
                 ELSE Failed(made.fs)
        removed == IF moved.ok THEN remove_dir(moved.fs, dummy_path)
                   ELSE Failed(moved.fs)
    IN  IF ~Exists(f, parent) THEN [ok |-> FALSE, fs |-> f, tmp |-> dummy_path]
        ELSE IF made.ok /\ moved.ok /\ removed.ok
        THEN LET again == create_dir(removed.fs, tmp, data)
             IN  [ok |-> again.ok, fs |-> again.fs, tmp |-> tmp]
        ELSE [ok |-> TRUE, fs |-> removed.fs, tmp |-> dummy_path]

\* a cleanup that removes nothing
cleanup_skipped(f, tmp) == Done(f)

\* TempDirectory::cleanup: a scratch that is gone already is no error
cleanup(f, tmp) ==
    IF ~Exists(f, tmp) THEN Done(f) ELSE remove_dir_all(f, tmp)

----------------------------------------------------------------------------
(* src/src/formats/mod.rs, src/src/formats/compression.rs: format          *)
(* detection.  The content classification (tree_magic) is an input: the   *)
(* type it gives for a prefix and that type's parents in its graph.        *)

BASE_TYPES ==
    {"all/all", "all/allfiles", "inode/directory", "text/plain",
     "application/octet-stream"}

\* the types tree_magic may give for a prefix
RawTypes ==
    {"application/zip", "application/x-tar", "application/x-archive",
     "application/gzip", "application/x-xz", "application/bzip2",
     "application/vnd.oasis.opendocument.text", "application/octet-stream"}

\* the types that may be a parent of one in tree_magic's graph
ParentTypes ==
    {"application/zip", "application/gzip", "application/octet-stream"}

\* most parents the graph gives one type
MaxParents == 1

RECURSIVE ParentLists(_)
ParentLists(n) ==
    IF n = 0 THEN {<<>>}
    ELSE ParentLists(n - 1)
           \cup {Append(ps, p) : ps \in {q \in ParentLists(n - 1) : Len(q) = n - 1},
                                 p \in ParentTypes}

\* the loop of get_mimetype over the incoming neighbours of the type's node:
\* each parent replaces the type, until a base type ends the loop
RECURSIVE WalkParents(_, _)
WalkParents(mimetype, parents) ==
    IF parents = <<>> THEN mimetype
    ELSE IF Head(parents) \in BASE_TYPES THEN mimetype
    ELSE WalkParents(Head(parents), Tail(parents))

get_mimetype(bytes) == WalkParents(bytes.raw, bytes.parents)

BY_MIMETYPE ==
    [m \in {"application/zip", "application/x-tar", "application/x-archive"} |->
        CASE m = "application/zip" -> "Zip"
          [] m = "application/x-tar" -> "Tar"
          [] m = "application/x-archive" -> "Ar"]

\* Compression::for_mimetype
for_mimetype(mimetype) ==
    CASE mimetype = "application/gzip" -> "Gz"
      [] mimetype = "application/x-xz" -> "Xz"
      [] mimetype = "application/bzip2" -> "Bz2"
      [] OTHER -> None

\* Compression::as_archive_type
as_archive_type(compression, parent) ==
    CASE parent = None ->
            (CASE compression = "Uncompressed" -> None
               [] compression = "Gz" -> "SingleFileGz"
               [] compression = "Bz2" -> "SingleFileBz2"
               [] compression = "Xz" -> "SingleFileXz")
      [] parent = "Tar" ->
            (CASE compression = "Uncompressed" -> "Tar"
               [] compression = "Gz" -> "TarGz"
               [] compression = "Bz2" -> "TarBz2"
               [] compression = "Xz" -> "TarXz")
      [] OTHER -> None

\* lower case of one part of a file name ((?i) of the patterns)
Lower(part) ==
    CASE part = "ZIP" -> "zip"
      [] part = "TGZ" -> "tgz"
      [] OTHER -> part

\* A file name is held as its parts between the dots: x.tar.gz is
\* <<"x", "tar", "gz">>.  The name ends with "." followed by the parts suf.
EndsWith(filename, suf) ==
    /\ Len(filename) > Len(suf)
    /\ \A i \in 1..Len(suf) :
          Lower(filename[Len(filename) - Len(suf) + i]) = suf[i]

\* the rules of BY_PATTERN in their order: the suffixes a regex accepts, and the type
BY_PATTERN ==
    << [suffixes |-> {<<"a">>, <<"ar">>}, ty |-> "Ar"],
       [suffixes |-> {<<"zip">>}, ty |-> "Zip"],
       [suffixes |-> {<<"tar">>}, ty |-> "Tar"],
       [suffixes |-> {<<"tar", "gz">>, <<"tgz">>}, ty |-> "TarGz"],
       [suffixes |-> {<<"tar", "xz">>, <<"txz">>}, ty |-> "TarXz"],
       [suffixes |-> {<<"tar", "bz2">>, <<"tbz2">>, <<"tbz">>}, ty |-> "TarBz2"] >>

is_match(rule, filename) == \E suf \in rule.suffixes : EndsWith(filename, suf)

determine_by_filename(filename) ==
    LET hits == {i \in 1..Len(BY_PATTERN) : is_match(BY_PATTERN[i], filename)}
    IN  IF hits = {} THEN None
        ELSE BY_PATTERN[CHOOSE i \in hits : \A j \in hits : i <= j].ty

\* inner: what decompressing the prefix (open) and reading from it gives
determine_behind_compession(inner, compression) ==
    IF ~inner.open THEN None
    ELSE IF ~inner.read THEN None
    ELSE LET mimetype == get_mimetype(inner)
         IN  IF mimetype \in DOMAIN BY_MIMETYPE
             THEN as_archive_type(compression, BY_MIMETYPE[mimetype])
             ELSE None

\* bytes: what opening the file and reading its prefix gives
determine_by_magic(bytes, inner) ==
    IF ~bytes.open THEN None
    ELSE IF ~bytes.read THEN None
    ELSE LET mimetype == get_mimetype(bytes)
         IN  IF mimetype \in DOMAIN BY_MIMETYPE THEN BY_MIMETYPE[mimetype]
             ELSE LET compression == for_mimetype(mimetype)
                  IN  IF compression = None THEN None
                      ELSE as_archive_type(compression,
                               determine_behind_compession(inner, compression))

\* for_path with the two detections in the other order: the name decides first
for_path_by_name_first(name, bytes, inner) ==
    LET byname == determine_by_filename(name)
    IN  IF byname # None THEN byname ELSE determine_by_magic(bytes, inner)

\* ArchiveType::for_path
for_path(name, bytes, inner) ==
    LET magic == determine_by_magic(bytes, inner)
    IN  IF magic # None THEN magic ELSE determine_by_filename(name)

\* the file names of SniffSpec
FileNames ==
    { <<"data", "bin">>, <<"zip">>, <<"x", "zip">>, <<"x", "ZIP">>, <<"x", "tar">>,
      <<"x", "tar", "gz">>, <<"x", "TGZ">>, <<"x", "gz">>, <<"lib", "a">>,
      <<"x", "tar", "xz">>, <<"x", "tbz">> }

\* what reading a prefix may give: the open (or the decompressor) fails, the
\* read fails, or the bytes are classified
Prefixes ==
    {NoBytes}
      \cup {[NoBytes EXCEPT !.open = TRUE]}
      \cup {[open |-> TRUE, read |-> TRUE, raw |-> t, parents |-> ps] :
              t \in RawTypes, ps \in ParentLists(MaxParents)}

\* the prefix is that of a pure compressor: for_path looks behind it
IsCompressed(bytes) ==
    /\ bytes.open /\ bytes.read
    /\ get_mimetype(bytes) \notin DOMAIN BY_MIMETYPE
    /\ for_mimetype(get_mimetype(bytes)) # None

SniffInit ==
    /\ sniffIn \in {[name |-> n, bytes |-> b] : n \in FileNames, b \in Prefixes}
    /\ sniffOut = NoSniff
    /\ IncrIdle /\ UnboxIdle /\ CopyIdle /\ LoopIdle /\ MainIdle

\* one call of for_path; the decompressed prefix is read only behind a compressor
SniffCall ==
    /\ sniffIn # NoFile
    /\ sniffOut = NoSniff
    /\ \E inner \in Prefixes :
         /\ IsCompressed(sniffIn.bytes) \/ inner = NoBytes
         /\ sniffOut' = [ behind |-> IsCompressed(sniffIn.bytes),
                          inner |-> inner,
                          result |-> for_path(sniffIn.name, sniffIn.bytes, inner) ]
    /\ UNCHANGED <<sniffIn, incrVars, unboxVars, copyVars, loopVars, mainVars>>

----------------------------------------------------------------------------
(* src/src/archive.rs: UnpackHelper                                        *)

\* the destination directory ".", canonicalized
Dst == << <<"d", "s", "t">> >>

\* Component::ParentDir
ParentDir == <<".", ".">>

AllButLast(s) == SubSeq(s, 1, Len(s) - 1)

\* A stored path is [abs, comps, dir]: whether it starts with a root component,
\* its components after that (names and ParentDir), and whether the entry is a
\* directory.

\* base.join(path), as Path::join: an absolute path replaces base
Join(base, path) == IF path.abs THEN Root ELSE base

\* What fs::create_dir_all makes of base followed by comps, and where the
\* operating system then finds that directory: each name is made if it is
\* missing, each ".." steps up.  [ok, fs, at].
RECURSIVE MakeDirs(_, _, _, _)
MakeDirs(f, at, comps, data) ==
    IF comps = <<>> THEN [ok |-> IsDir(f, at), fs |-> f, at |-> at]
    ELSE IF Head(comps) = ParentDir
    THEN IF IsDir(f, at) THEN MakeDirs(f, Parent(at), Tail(comps), data)
         ELSE [ok |-> FALSE, fs |-> f, at |-> at]
    ELSE LET d == Append(at, Head(comps))
             made == create_dir_all(f, d, data)
         IN  IF made.ok THEN MakeDirs(made.fs, d, Tail(comps), data)
             ELSE [ok |-> FALSE, fs |-> f, at |-> at]

\* UnpackHelper::write_file with the file created below dst, not below the scratch
write_file_in_dst(f, h, filename, data) ==
    IF filename.comps = <<>> THEN Failed(f)
    ELSE LET dirs == MakeDirs(f, Join(h.dst, filename), AllButLast(filename.comps), data)
         IN  IF dirs.ok
             THEN file_create(dirs.fs, Append(dirs.at, Last(filename.comps)), data)
             ELSE Failed(dirs.fs)

\* UnpackHelper::write_file (with the copy of write_file_with_progress): the
\* parent of tmp.join(filename) is created, then the file
write_file(f, h, filename, data) ==
    IF filename.comps = <<>> THEN Failed(f)
    ELSE LET tmproot == create_dir_all(f, Join(h.tmp, filename), data)
             dirs == MakeDirs(tmproot.fs, Join(h.tmp, filename),
                              AllButLast(filename.comps), data)
         IN  IF tmproot.ok /\ dirs.ok
             THEN file_create(dirs.fs, Append(dirs.at, Last(filename.comps)), data)
             ELSE Failed(dirs.fs)

\* the loop of commit over read_dir, without its break
RECURSIVE commit_scan_no_break(_, _, _)
commit_scan_no_break(entries, intended_dst, to_move) ==
    IF entries = <<>> THEN [intended_dst |-> intended_dst, to_move |-> to_move]
    ELSE IF intended_dst = {}
    THEN commit_scan_no_break(Tail(entries), {Head(entries)}, {Head(entries)})
    ELSE commit_scan_no_break(Tail(entries), {}, to_move)

\* the loop of commit without the single-child case: the root is always moved
commit_scan_root_only(entries, intended_dst, to_move) ==
    [intended_dst |-> {}, to_move |-> {}]

\* The loop of commit over read_dir.  An Option is a set of at most one
\* element; intended_dst holds the entry whose name is wanted.
RECURSIVE commit_scan(_, _, _)
commit_scan(entries, intended_dst, to_move) ==
    IF entries = <<>> THEN [intended_dst |-> intended_dst, to_move |-> to_move]
    ELSE IF intended_dst = {}
    THEN commit_scan(Tail(entries), {Head(entries)}, {Head(entries)})
    ELSE [intended_dst |-> {}, to_move |-> to_move]

\* the orders in which read_dir may give the entries of a directory
RECURSIVE Orders(_)
Orders(S) ==
    IF S = {} THEN {<<>>}
    ELSE UNION {{<<x>> \o s : s \in Orders(S \ {x})} : x \in S}

\* UnpackHelper::commit after read_dir gave entries: [ok, fs, intended, path]
commit(f, h, entries, same) ==
    LET scan == commit_scan(entries, {}, {})
        one == scan.intended_dst # {} /\ scan.to_move # {}
        src == IF one THEN CHOOSE p \in scan.to_move : TRUE ELSE h.tmp
        intended == IF one
                    THEN Append(h.dst, Last(CHOOSE p \in scan.intended_dst : TRUE))
                    ELSE Append(h.dst, h.archive_base)
        rv == rename_resolving_conflict(f, src, intended, same)
        cleaned == cleanup(rv.fs, h.tmp)
    IN  IF ~rv.ok THEN [ok |-> FALSE, fs |-> rv.fs, intended |-> intended, path |-> rv.path]
        ELSE [ok |-> cleaned.ok, fs |-> cleaned.fs, intended |-> intended,
              path |-> rv.path]

----------------------------------------------------------------------------
(* src/src/formats/*.rs: the unpack of each reader, one entry at a time    *)

WiredReaders == {"ArArchive", "ZipArchive", "TarArchive", "SingleFileArchive"}

\* the readers mod.rs declares, and CabArchive of formats/cab.rs
AllReaders == WiredReaders \cup {"CabArchive"}

\* Component::ParentDir | Component::RootDir | Component::Prefix(..)
HasTraversal(path) == path.abs \/ \E i \in 1..Len(path.comps) : path.comps[i] = ParentDir

\* Component::Normal only
NormalComps(comps) == SelectSeq(comps, LAMBDA c : c # ParentDir)

\* ArArchive::unpack, one entry: an entry with a traversal component is
\* skipped, any other is created at tmp.join(path)
ArUnpackEntry(f, h, e, data) ==
    IF HasTraversal(e) THEN Done(f)
    ELSE file_create(f, h.tmp \o e.comps, data)

\* ZipFile::sanitized_name: the Normal components of the stored name
sanitized_name(e) == [abs |-> FALSE, comps |-> NormalComps(e.comps), dir |-> e.dir]

\* ZipArchive::unpack, one entry
ZipUnpackEntry(f, h, e, data) ==
    LET name == sanitized_name(e)
    IN  IF ~e.dir THEN write_file(f, h, name, data)
        ELSE LET path == h.tmp \o name.comps
             IN  IF ~Exists(f, path) THEN create_dir_all(f, path, data) ELSE Done(f)

\* unpack_all of tar.rs, one entry, with tar's Entry::unpack_in: an entry
\* with ".." is skipped, a root component is dropped, the parent is created
TarUnpackEntry(f, h, e, data) ==
    IF \E i \in 1..Len(e.comps) : e.comps[i] = ParentDir THEN Done(f)
    ELSE LET file_dst == h.tmp \o e.comps
             up == create_dir_all(f, Parent(file_dst), data)
         IN  IF file_dst = h.tmp THEN Done(f)
             ELSE IF ~up.ok THEN Failed(f)
             ELSE IF e.dir THEN create_dir_all(up.fs, file_dst, data)
             ELSE file_create(up.fs, file_dst, data)

\* CabArchive::unpack, one file: the name goes to write_file as it is stored
\* (with / for \)
CabUnpackEntry(f, h, e, data) == write_file(f, h, e, data)

\* SingleFileArchive::unpack: one file, named by the stem of the archive
SingleFileUnpack(f, h, data) == file_create(f, Append(h.tmp, h.archive_base), data)

UnpackEntryOf(f, h, e, data) ==
    CASE h.reader = "ArArchive" -> ArUnpackEntry(f, h, e, data)
      [] h.reader = "ZipArchive" -> ZipUnpackEntry(f, h, e, data)
      [] h.reader = "TarArchive" -> TarUnpackEntry(f, h, e, data)
      [] h.reader = "CabArchive" -> CabUnpackEntry(f, h, e, data)
      [] h.reader = "SingleFileArchive" -> SingleFileUnpack(f, h, data)

----------------------------------------------------------------------------
(* src/src/cli.rs: unpack_archives, the loop over the opened archives      *)

NameA == <<"a">>
NameD == <<"d">>
NameE == <<"e">>
NameO == <<"o">>
NameO2 == <<"o", "-", "2">>

File(abs, comps) == [abs |-> abs, comps |-> comps, dir |-> FALSE]

\* the stored paths of the entries an archive may hold:
\* a, d/a, d/ (a directory), ../e and /e
EntryPaths ==
    { File(FALSE, <<NameA>>), File(FALSE, <<NameD, NameA>>),
      [abs |-> FALSE, comps |-> <<NameD>>, dir |-> TRUE],
      File(FALSE, <<ParentDir, NameE>>), File(TRUE, <<NameE>>) }

\* ar and cab hold files only; a single file archive has no stored path
EntriesOf(reader) ==
    CASE reader \in {"ArArchive", "CabArchive"} -> {e \in EntryPaths : ~e.dir}
      [] reader = "SingleFileArchive" -> {File(FALSE, <<>>)}
      [] OTHER -> EntryPaths

\* the stems of the archives' file names
BaseNames == {NameO}

\* what the destination may hold before the run
PreNames == {NameO, NameO2}

InitialFs(names) ==
    [p \in {Root, TempDir, Dst} \cup {Append(Dst, n) : n \in names} |->
        IF p \in {Root, TempDir, Dst} THEN Node("dir", 0) ELSE Node("file", 0)]

UnboxInit ==
    /\ fs \in {InitialFs(names) : names \in SUBSET PreNames}
    /\ sameFs \in BOOLEAN
    /\ nfiles \in 1..MaxArchives
    /\ pc = "start"
    /\ k = 0
    /\ helper = NoHelper
    /\ before = fs
    /\ published = <<>>
    /\ IncrIdle /\ SniffIdle /\ CopyIdle /\ LoopIdle /\ MainIdle

\* UnpackHelper::create for the next archive without waiting for the commit of
\* the archive in work
Create_early(readers) ==
    /\ pc \in {"start", "committed", "unpacking"}
    /\ k < nfiles
    /\ \E reader \in readers, base \in BaseNames :
         LET t == for_path_temp(fs, Dst, k + 1, sameFs, k + 1)
         IN  /\ fs' = t.fs
             /\ helper' = [reader |-> reader, archive_base |-> base,
                           dst |-> Dst, tmp |-> t.tmp]
             /\ pc' = IF t.ok THEN "unpacking" ELSE "failed"
    /\ k' = k + 1
    /\ before' = fs
    /\ UNCHANGED <<sameFs, nfiles, published, incrVars, sniffVars, copyVars,
                   loopVars, mainVars>>

\* UnpackHelper::create for the next archive, read by one of readers
Create(readers) ==
    /\ pc \in {"start", "committed"}
    /\ k < nfiles
    /\ \E reader \in readers, base \in BaseNames :
         LET t == for_path_temp(fs, Dst, k + 1, sameFs, k + 1)
         IN  /\ fs' = t.fs
             /\ helper' = [reader |-> reader, archive_base |-> base,
                           dst |-> Dst, tmp |-> t.tmp]
             /\ pc' = IF t.ok THEN "unpacking" ELSE "failed"
    /\ k' = k + 1
    /\ before' = fs
    /\ UNCHANGED <<sameFs, nfiles, published, incrVars, sniffVars, copyVars,
                   loopVars, mainVars>>

\* the nodes below the scratch root
Unpacked(f, h) == {p \in DOMAIN f : IsUnder(p, h.tmp) /\ p # h.tmp}

\* unpack reads one more entry of the archive and writes it
UnpackEntry ==
    /\ pc = "unpacking"
    /\ Cardinality(Unpacked(fs, helper))
         < (IF helper.reader = "SingleFileArchive" THEN 1 ELSE MaxEntries)
    /\ \E e \in EntriesOf(helper.reader) :
         LET r == UnpackEntryOf(fs, helper, e, k)
         IN  /\ fs' = r.fs
             /\ pc' = IF r.ok THEN "unpacking" ELSE "failed"
    /\ UNCHANGED <<sameFs, nfiles, k, helper, before, published, incrVars, sniffVars, copyVars,
                   loopVars, mainVars>>

\* unpack fails reading the archive: the error is returned, the helper dropped
UnpackError ==
    /\ pc = "unpacking"
    /\ pc' = "failed"
    /\ UNCHANGED <<fs, sameFs, nfiles, k, helper, before, published, incrVars,
                   sniffVars, copyVars,
                   loopVars, mainVars>>

\* unpack has returned Ok: commit, and the path is printed; after the last
\* archive unpack_archives returns Ok
Commit ==
    /\ pc = "unpacking"
    /\ helper.reader = "SingleFileArchive"
         => Exists(fs, Append(helper.tmp, helper.archive_base))
    /\ IF ~IsDir(fs, helper.tmp)
       THEN /\ pc' = "failed"
            /\ UNCHANGED <<fs, published>>
       ELSE \E entries \in Orders(Kids(fs, helper.tmp)) :
              LET c == commit(fs, helper, entries, sameFs)
              IN  /\ fs' = c.fs
                  /\ pc' = IF ~c.ok THEN "failed"
                           ELSE IF k = nfiles THEN "done" ELSE "committed"
                  /\ published' =
                       IF c.ok
                       THEN Append(published, [intended |-> c.intended, path |-> c.path])
                       ELSE published
    /\ UNCHANGED <<sameFs, nfiles, k, helper, before, incrVars, sniffVars, copyVars,
                   loopVars, mainVars>>

----------------------------------------------------------------------------
(* src/src/main.rs, src/src/cli.rs: main, analyze_archives and the first   *)
(* loop of unpack_archives.  What create, unpack and commit do to the file *)
(* system is modelled above; here the processing of an archive is its      *)
(* outcome: Ok with a path to print, or Err.                               *)

\* a prefix tree_magic has no type for
PlainBytes == [open |-> TRUE, read |-> TRUE, raw |-> "application/octet-stream",
               parents |-> <<>>]

\* the files that may be named on the command line: a zip called data.bin, a
\* file known by its name x.tar only, and a file of no known type
MainSniffs ==
    { [name |-> <<"data", "bin">>,
       bytes |-> [PlainBytes EXCEPT !.raw = "application/zip"]],
      [name |-> <<"x", "tar">>, bytes |-> PlainBytes],
      [name |-> <<"data", "bin">>, bytes |-> PlainBytes] }

\* a path of the command line: the file there, whether ty.open(&path) gives
\* Ok, whether create, unpack and commit all give Ok
MainFiles ==
    {[file |-> s, opens |-> o, works |-> w] :
        s \in MainSniffs, o \in BOOLEAN, w \in BOOLEAN}

RECURSIVE FileLists(_)
FileLists(n) ==
    IF n = 0 THEN {<<>>}
    ELSE FileLists(n - 1)
           \cup {Append(fl, x) : fl \in {q \in FileLists(n - 1) : Len(q) = n - 1},
                                 x \in MainFiles}

\* ArchiveType::for_path(&path) of a path of the command line
TypeOf(f) == for_path(f.file.name, f.file.bytes, NoBytes)

\* ArchiveType::iter()
ArchiveTypes ==
    <<"Ar", "Zip", "Tar", "TarGz", "TarXz", "TarBz2",
      "SingleFileGz", "SingleFileXz", "SingleFileBz2">>

\* std::process::exit(1) of main.rs, and the return from main
ExitErr == 1
ExitOk == 0

Line(path, text) == [path |-> path, text |-> text]

MainInit ==
    /\ args \in {[analyze |-> a, list_formats |-> l, skip_unknown |-> s, files |-> fl] :
                    a \in BOOLEAN, l \in BOOLEAN, s \in BOOLEAN,
                    fl \in FileLists(MaxFiles) \ {<<>>}}
    /\ run = [NoRun EXCEPT !.pc = "main"]
    /\ IncrIdle /\ SniffIdle /\ UnboxIdle /\ CopyIdle /\ LoopIdle

\* --list-formats: the formats are printed and main returns Ok
ListFormats ==
    /\ run.pc = "main"
    /\ args.list_formats
    /\ run' = [run EXCEPT !.pc = "exit", !.exit = ExitOk,
                          !.stdout = [j \in 1..Len(ArchiveTypes) |->
                                         Line(0, ArchiveTypes[j])]]
    /\ UNCHANGED <<args, incrVars, sniffVars, unboxVars, copyVars, loopVars>>

\* analyze_archives: one round of its loop; after the last it returns Ok
AnalyzeFile ==
    /\ run.pc = "main"
    /\ ~args.list_formats /\ args.analyze
    /\ run.i < Len(args.files)
    /\ LET i == run.i + 1
           ty == TypeOf(args.files[i])
           out == IF ty # None THEN Append(run.stdout, Line(i, ty))
                  ELSE IF ~args.skip_unknown
                  THEN Append(run.stdout, Line(i, "unsupported"))
                  ELSE run.stdout
       IN  run' = IF i = Len(args.files)
                  THEN [run EXCEPT !.i = i, !.stdout = out, !.pc = "exit",
                                   !.exit = ExitOk]
                  ELSE [run EXCEPT !.i = i, !.stdout = out]
    /\ UNCHANGED <<args, incrVars, sniffVars, unboxVars, copyVars, loopVars>>

\* the first loop of unpack_archives with every unknown path skipped, flag or not
OpenFile_always_skips ==
    /\ run.pc = "main"
    /\ ~args.list_formats /\ ~args.analyze
    /\ run.i < Len(args.files)
    /\ LET i == run.i + 1
           f == args.files[i]
           ty == TypeOf(f)
           archives == IF ty # None THEN Append(run.archives, i) ELSE run.archives
           failed == ty # None /\ ~f.opens
       IN  run' = IF failed
                  THEN [run EXCEPT !.i = i, !.pc = "exit", !.exit = ExitErr]
                  ELSE IF i = Len(args.files)
                  THEN IF archives = <<>>
                       THEN [run EXCEPT !.i = i, !.pc = "exit", !.exit = ExitOk]
                       ELSE [run EXCEPT !.i = 0, !.archives = archives,
                                        !.pc = "unpack"]
                  ELSE [run EXCEPT !.i = i, !.archives = archives]
    /\ UNCHANGED <<args, incrVars, sniffVars, unboxVars, copyVars, loopVars>>

\* unpack_archives: one round of its first loop
OpenFile ==
    /\ run.pc = "main"
    /\ ~args.list_formats /\ ~args.analyze
    /\ run.i < Len(args.files)
    /\ LET i == run.i + 1
           f == args.files[i]
           ty == TypeOf(f)
           archives == IF ty # None THEN Append(run.archives, i) ELSE run.archives
           failed == IF ty # None THEN ~f.opens ELSE ~args.skip_unknown
       IN  run' = IF failed
                  THEN [run EXCEPT !.i = i, !.pc = "exit", !.exit = ExitErr]
                  ELSE IF i = Len(args.files)
                  THEN IF archives = <<>>
                       THEN [run EXCEPT !.i = i, !.pc = "exit", !.exit = ExitOk]
                       ELSE [run EXCEPT !.i = 0, !.archives = archives,
                                        !.pc = "unpack"]
                  ELSE [run EXCEPT !.i = i, !.archives = archives]
    /\ UNCHANGED <<args, incrVars, sniffVars, unboxVars, copyVars, loopVars>>

\* unpack_archives: one round of its second loop; after the last it returns Ok
UnpackArchive ==
    /\ run.pc = "unpack"
    /\ run.i < Len(run.archives)
    /\ LET i == run.i + 1
           f == args.files[run.archives[i]]
       IN  run' = IF ~f.works
                  THEN [run EXCEPT !.i = i, !.pc = "exit", !.exit = ExitErr]
                  ELSE LET out == Append(run.stdout, Line(run.archives[i], "published"))
                       IN  IF i = Len(run.archives)
                           THEN [run EXCEPT !.i = i, !.stdout = out, !.pc = "exit",
                                            !.exit = ExitOk]
                           ELSE [run EXCEPT !.i = i, !.stdout = out]
    /\ UNCHANGED <<args, incrVars, sniffVars, unboxVars, copyVars, loopVars>>

----------------------------------------------------------------------------
(* src/src/archive.rs: copy_with_progress                                  *)

\* what one call of reader.read may give before the end of the input: Ok(len)
\* with len bytes in buf, Err of kind Interrupted, Err of another kind
ReadResults ==
    { [kind |-> "Ok", data |-> <<"x">>], [kind |-> "Ok", data |-> <<"y", "z">>],
      [kind |-> "Interrupted", data |-> <<>>], [kind |-> "Err", data |-> <<>>] }

\* reader.read at the end of the input: Ok(0)
EndOfInput == [kind |-> "Ok", data |-> <<>>]

RECURSIVE ReadScripts(_)
ReadScripts(n) ==
    IF n = 0 THEN {<<>>}
    ELSE ReadScripts(n - 1)
           \cup {Append(s, r) : s \in {q \in ReadScripts(n - 1) : Len(q) = n - 1},
                                r \in ReadResults}

\* a round of the loop that returns the Interrupted error like any other
copy_round_no_retry(c, r, n) ==
    IF r.kind = "Ok" /\ r.data = <<>> THEN [c EXCEPT !.pc = "returned"]
    ELSE IF r.kind = "Ok"
    THEN IF n = Len(r.data)
         THEN [c EXCEPT !.pos = @ + 1, !.sink = @ \o r.data,
                        !.written = @ + Len(r.data), !.progress = @ + Len(r.data)]
         ELSE [c EXCEPT !.pos = @ + 1, !.sink = @ \o SubSeq(r.data, 1, n),
                        !.pc = "returned", !.err = "write"]
    ELSE [c EXCEPT !.pos = @ + 1, !.pc = "returned", !.err = r.kind]

\* One round of the loop of copy_with_progress: r is what reader.read gives,
\* n the number of bytes write_all gets written (all of them, or it fails).
\* pc "returned" with err None is Ok(written), with another err it is Err.
copy_round(c, r, n) ==
    IF r.kind = "Ok" /\ r.data = <<>> THEN [c EXCEPT !.pc = "returned"]
    ELSE IF r.kind = "Ok"
    THEN IF n = Len(r.data)
         THEN [c EXCEPT !.pos = @ + 1, !.sink = @ \o r.data,
                        !.written = @ + Len(r.data), !.progress = @ + Len(r.data)]
         ELSE [c EXCEPT !.pos = @ + 1, !.sink = @ \o SubSeq(r.data, 1, n),
                        !.pc = "returned", !.err = "write"]
    ELSE IF r.kind = "Interrupted" THEN [c EXCEPT !.pos = @ + 1]
    ELSE [c EXCEPT !.pos = @ + 1, !.pc = "returned", !.err = r.kind]

CopyInit ==
    /\ reads \in ReadScripts(MaxReads)
    /\ copy = [NoCopy EXCEPT !.pc = "loop"]
    /\ IncrIdle /\ SniffIdle /\ UnboxIdle /\ LoopIdle /\ MainIdle

CopyRound ==
    /\ copy.pc = "loop"
    /\ LET r == IF copy.pos < Len(reads) THEN reads[copy.pos + 1] ELSE EndOfInput
       IN  \E n \in 0..Len(r.data) : copy' = copy_round(copy, r, n)
    /\ UNCHANGED <<reads, incrVars, sniffVars, unboxVars, loopVars, mainVars>>

----------------------------------------------------------------------------
(* src/src/utils.rs: the loop of rename_resolving_conflict round by round, *)
(* with the width of the number increment_string parses: caps[2] is parsed *)
(* as u64 and unwrapped, and num + 1 is a u64 addition.  A number is held  *)
(* as its decimal digits here, the widest being beyond the integers of the *)
(* model checker.                                                          *)

\* u64::MAX, 18446744073709551615
U64_MAX ==
    <<"1", "8", "4", "4", "6", "7", "4", "4", "0", "7", "3", "7", "0", "9", "5", "5",
      "1", "6", "1", "5">>

RECURSIVE StripZeros(_)
StripZeros(ds) ==
    IF Len(ds) > 1 /\ Head(ds) = "0" THEN StripZeros(Tail(ds)) ELSE ds

\* a <= b for two runs of digits of one length
RECURSIVE DigitsLeq(_, _)
DigitsLeq(a, b) ==
    IF a = <<>> THEN TRUE
    ELSE IF DigitVal(Head(a)) < DigitVal(Head(b)) THEN TRUE
    ELSE IF DigitVal(Head(a)) > DigitVal(Head(b)) THEN FALSE
    ELSE DigitsLeq(Tail(a), Tail(b))

\* str::parse::<u64> gives Err: the number is greater than u64::MAX
ParseFails(ds) ==
    LET n == StripZeros(ds)
    IN  Len(n) > Len(U64_MAX) \/ (Len(n) = Len(U64_MAX) /\ ~DigitsLeq(n, U64_MAX))

\* the run of digits increment_string parses in s, <<>> when there is none
Caps2(s) ==
    LET i == RegexDigitStart(s)
    IN  IF i = 0 THEN <<>> ELSE SubSeq(s, i, RunEnd(s, i))

\* Whether a call of increment_string panics.  The unwrap of a failed parse
\* always does; num + 1 at u64::MAX panics in a build with overflow checks
\* and wraps to 0 in one without.
increment_panics(s) ==
    IF Caps2(s) = <<>> THEN {FALSE}
    ELSE IF ParseFails(Caps2(s)) THEN {TRUE}
    ELSE IF StripZeros(Caps2(s)) = U64_MAX THEN {TRUE, FALSE}
    ELSE {FALSE}

\* what increment_string returns when it does not panic
increment_u64(s) ==
    IF Caps2(s) # <<>> /\ StripZeros(Caps2(s)) = U64_MAX
    THEN LET i == RegexDigitStart(s)
         IN  SubSeq(s, 1, i - 1) \o <<"0">> \o SubSeq(s, RunEnd(s, i) + 1, Len(s))
    ELSE increment_string(s)

\* one round of the loop: names are the names in parent, panics whether
\* increment_string panics in this round
loop_round(l, names, panics) ==
    IF panics THEN [l EXCEPT !.pc = "aborted"]
    ELSE LET new_basename == increment_u64(l.basename)
         IN  IF new_basename \notin names
             THEN [l EXCEPT !.pc = "returned", !.basename = new_basename,
                            !.tried = Append(@, new_basename)]
             ELSE [l EXCEPT !.basename = new_basename,
                            !.tried = Append(@, new_basename)]

\* the basenames of dst: the short strings, and f followed by u64::MAX, by
\* twenty nines, and by both with a zero before them
LoopNames ==
    {s \in Strings : Len(s) <= 2}
      \cup { <<"f">> \o U64_MAX, <<"f", "0">> \o U64_MAX,
             <<"f">> \o [j \in 1..20 |-> "9"], <<"f", "0">> \o [j \in 1..20 |-> "9"] }

\* the first n candidates of basename b, none for a b whose number is not small
RECURSIVE Pool(_, _)
Pool(b, n) ==
    IF n = 0 \/ Len(Caps2(b)) > 2 THEN {}
    ELSE {increment_string(b)} \cup Pool(increment_string(b), n - 1)

\* dst exists, and so does any of its first candidates
LoopInit ==
    /\ \E b \in LoopNames :
         /\ loop = [pc |-> "loop", basename |-> b, tried |-> <<>>]
         /\ taken \in {{b} \cup T : T \in SUBSET Pool(b, MaxTaken)}
    /\ IncrIdle /\ SniffIdle /\ UnboxIdle /\ CopyIdle /\ MainIdle

LoopRound ==
    /\ loop.pc = "loop"
    /\ \E panics \in increment_panics(loop.basename) :
         loop' = loop_round(loop, taken, panics)
    /\ UNCHANGED <<taken, incrVars, sniffVars, unboxVars, copyVars, mainVars>>

----------------------------------------------------------------------------
(* Definitions shared by the claims about the loop of unpack_archives.     *)

\* the commit of archive k has returned Ok
Committed == pc \in {"committed", "done"}

\* a step in which commit returns Ok
CommitStep == pc = "unpacking" /\ pc' \in {"committed", "done"}

\* q, which lies below src, as it is called once src has become dst
Moved(q, src, dst) == dst \o SubSeq(q, Len(src) + 1, Len(q))

\* everything at or below src in f is at the same place below dst in g
SameTree(f, src, g, dst) ==
    /\ \A q \in DOMAIN f :
          IsUnder(q, src) => (Moved(q, src, dst) \in DOMAIN g
                                /\ g[Moved(q, src, dst)] = f[q])
    /\ \A q \in DOMAIN g :
          IsUnder(q, dst) => Moved(q, dst, src) \in DOMAIN f

\* path p is in f and g alike: in neither, or in both with the same node
SameAt(f, g, p) ==
    /\ p \in DOMAIN f <=> p \in DOMAIN g
    /\ p \in DOMAIN f => f[p] = g[p]

RECURSIVE IncrTimes(_, _)
IncrTimes(name, n) ==
    IF n = 0 THEN name ELSE increment_string(IncrTimes(name, n - 1))

\* a name and the names the conflict resolution may make of it in a run
Variants(name) == {IncrTimes(name, n) : n \in 0..(MaxArchives + Cardinality(PreNames))}

----------------------------------------------------------------------------
(* C1.  rename_resolving_conflict never overwrites: in every commit, each  *)
(* path outside the scratch (where the source of the rename lies) that     *)
(* existed before still exists afterwards with what it held; and when the  *)
(* second archive wants the name the first was published under, and that   *)
(* name followed by "-2" is free, the first name still holds what the      *)
(* first archive put there and the second archive is at the "-2" name.     *)

C1_NeverOverwrites ==
    [][CommitStep =>
         /\ \A p \in DOMAIN fs :
               ~IsUnder(p, helper.tmp) => (p \in DOMAIN fs' /\ fs'[p] = fs[p])
         /\ LET out == published[1].path
                out2 == Append(Parent(out), Last(out) \o <<"-", "2">>)
            IN  (/\ Len(published) = 1
                 /\ published[1].intended = out
                 /\ published'[2].intended = out
                 /\ out2 \notin DOMAIN fs)
                => /\ fs'[out].data = 1
                   /\ published'[2].path = out2
                   /\ fs'[out2].data = 2]_vars

\* two archives that both wanted the name o are at o and at o-2
C1_Witness ==
    /\ Len(published) = 2
    /\ published[1].intended = Append(Dst, NameO)
    /\ published[2].intended = Append(Dst, NameO)
    /\ published[1].path = Append(Dst, NameO)
    /\ published[2].path = Append(Dst, NameO2)
    /\ fs[Append(Dst, NameO)].data = 1
    /\ fs[Append(Dst, NameO2)].data = 2

----------------------------------------------------------------------------
(* C2.  After a commit that returned Ok the destination directory holds    *)
(* exactly one direct child more than when UnpackHelper::create was        *)
(* called, and all it held then.                                           *)

C2_ExactlyOneNewItem ==
    Committed =>
        /\ Kids(before, Dst) \subseteq Kids(fs, Dst)
        /\ Cardinality(Kids(fs, Dst) \ Kids(before, Dst)) = 1

\* a commit from a scratch inside the destination has published a single child
C2_Witness ==
    /\ Committed
    /\ Parent(helper.tmp) = Dst
    /\ published[Len(published)].path = Append(Dst, NameA)
    /\ Cardinality(Kids(fs, Dst) \ Kids(before, Dst)) = 1

----------------------------------------------------------------------------
(* C3.  When the scratch root has exactly one child at commit, that child  *)
(* (with all below it) is published under its own name in the destination, *)
(* or under a variant of that name that was free, never inside a directory *)
(* named after the archive, and that path is the one returned.             *)

C3_SingleChildFlattened ==
    [][(CommitStep /\ Cardinality(Kids(fs, helper.tmp)) = 1) =>
         LET child == CHOOSE c \in Kids(fs, helper.tmp) : TRUE
             rv == published'[Len(published')]
         IN  /\ rv.intended = Append(Dst, Last(child))
             /\ Parent(rv.path) = Dst
             /\ Last(rv.path) \in Variants(Last(child))
             /\ rv.intended \notin DOMAIN fs => rv.path = rv.intended
             /\ rv.path \notin DOMAIN fs
             /\ SameTree(fs, child, fs', rv.path)
             /\ Kids(fs', Dst) \ Kids(fs, Dst) \subseteq {rv.path}]_vars

\* the file a of the second archive, alone in its scratch, was published as a
C3_Witness ==
    /\ Committed
    /\ k = 2
    /\ published[2].path = Append(Dst, NameA)
    /\ fs[Append(Dst, NameA)] = Node("file", 2)

----------------------------------------------------------------------------
(* C4.  When the scratch root has no child, or two or more, at commit, the *)
(* scratch root with all below it is published as one directory named      *)
(* after the archive (or a variant of that name that was free), and        *)
(* nothing else appears in the destination.                                *)

C4_RootPublished ==
    [][(CommitStep /\ Cardinality(Kids(fs, helper.tmp)) # 1) =>
         LET rv == published'[Len(published')]
         IN  /\ rv.intended = Append(Dst, helper.archive_base)
             /\ Parent(rv.path) = Dst
             /\ Last(rv.path) \in Variants(helper.archive_base)
             /\ rv.intended \notin DOMAIN fs => rv.path = rv.intended
             /\ rv.path \notin DOMAIN fs
             /\ fs'[rv.path].kind = "dir"
             /\ SameTree(fs, helper.tmp, fs', rv.path)
             /\ Kids(fs', Dst) \ Kids(fs, Dst) = {rv.path}]_vars

\* a directory o with three children was published
C4_Witness ==
    /\ Committed
    /\ published[Len(published)].path = Append(Dst, NameO)
    /\ Cardinality(Kids(fs, Append(Dst, NameO))) = 3

\* an archive without entries was published as the empty directory o
C4_WitnessEmpty ==
    /\ Committed
    /\ published[Len(published)].path = Append(Dst, NameO)
    /\ Kids(fs, Append(Dst, NameO)) = {}

----------------------------------------------------------------------------
(* C5.  While an archive is being unpacked, the destination directory      *)
(* holds what it held when UnpackHelper::create was called, in both        *)
(* placements of the scratch.                                              *)

C5_DestinationAsBefore ==
    pc = "unpacking" =>
        \A p \in DOMAIN fs \cup DOMAIN before :
            IsUnder(p, Dst) => SameAt(fs, before, p)

\* C5 as amended: the same, for every path of the destination that is not
\* the scratch root or below it; a scratch in the temp area is not in the
\* destination at all.
C5_DestinationAsBeforeButScratch ==
    pc = "unpacking" =>
        /\ \A p \in DOMAIN fs \cup DOMAIN before :
              (IsUnder(p, Dst) /\ ~IsUnder(p, helper.tmp)) => SameAt(fs, before, p)
        /\ Parent(helper.tmp) \in {TempDir, Dst}
        /\ Last(helper.tmp) = ScratchName(k)

\* a file has been unpacked into a scratch that lies in the destination
C5_Witness ==
    /\ pc = "unpacking"
    /\ Parent(helper.tmp) = Dst
    /\ \E p \in DOMAIN fs : IsUnder(p, helper.tmp) /\ fs[p].kind = "file"

----------------------------------------------------------------------------
(* C6.  When the processing of an archive has ended, by a commit that      *)
(* returned Ok or by an error of unpack or of commit, its scratch          *)
(* directory does not exist.                                               *)

C6_ScratchGone ==
    pc \in {"committed", "done", "failed"} => ~Exists(fs, helper.tmp)

----------------------------------------------------------------------------
(* C7.  Whatever the reader (ar, zip, tar, cab, single file) and whatever  *)
(* the stored path of an entry, ../e and /e included, a step of unpack     *)
(* creates and changes nothing outside the scratch root.                   *)

C7_NothingOutsideScratch ==
    [][(pc = "unpacking" /\ pc' \in {"unpacking", "failed"}) =>
         \A p \in DOMAIN fs \cup DOMAIN fs' :
             ~IsUnder(p, helper.tmp) => SameAt(fs, fs', p)]_vars

----------------------------------------------------------------------------
(* C8.  When the file can be read and the normalized type of its prefix is *)
(* one of BY_MIMETYPE (zip, tar, ar), for_path returns the type of that    *)
(* container whatever the file is called.                                  *)

SniffDone == sniffOut.result # NoResult

Readable(bytes) == bytes.open /\ bytes.read

C8_ContentDecidesContainer ==
    (SniffDone /\ Readable(sniffIn.bytes)
       /\ get_mimetype(sniffIn.bytes) \in DOMAIN BY_MIMETYPE)
    => sniffOut.result = BY_MIMETYPE[get_mimetype(sniffIn.bytes)]

\* a zip that is called x.tar has been detected as Zip
C8_Witness ==
    /\ SniffDone /\ Readable(sniffIn.bytes)
    /\ sniffIn.name = <<"x", "tar">>
    /\ get_mimetype(sniffIn.bytes) = "application/zip"
    /\ sniffOut.result = "Zip"

----------------------------------------------------------------------------
(* C9.  When the prefix is that of a pure compressor (gzip, xz, bzip2):    *)
(* if the decompressed prefix sniffs as tar, for_path returns the          *)
(* composite type (TarGz, TarXz, TarBz2) for every file name; if it        *)
(* matches no container, for_path returns the SingleFile type of the       *)
(* compressor.                                                              *)

CompositeOf(mimetype) ==
    CASE mimetype = "application/gzip" -> "TarGz"
      [] mimetype = "application/x-xz" -> "TarXz"
      [] mimetype = "application/bzip2" -> "TarBz2"

SingleFileOf(mimetype) ==
    CASE mimetype = "application/gzip" -> "SingleFileGz"
      [] mimetype = "application/x-xz" -> "SingleFileXz"
      [] mimetype = "application/bzip2" -> "SingleFileBz2"

C9_TarBehindCompression ==
    (SniffDone /\ IsCompressed(sniffIn.bytes) /\ Readable(sniffOut.inner))
    => IF get_mimetype(sniffOut.inner) = "application/x-tar"
       THEN sniffOut.result = CompositeOf(get_mimetype(sniffIn.bytes))
       ELSE get_mimetype(sniffOut.inner) \notin DOMAIN BY_MIMETYPE
            => sniffOut.result = SingleFileOf(get_mimetype(sniffIn.bytes))

----------------------------------------------------------------------------
(* C10.  increment_string(s) is s followed by "-2" when s holds no digit;  *)
(* otherwise it is s with its first run of digits, read as the number n,   *)
(* replaced by the decimal rendering of n+1, for every s: also one that    *)
(* begins with a digit or is made of digits only.                          *)

\* the index of the first digit of s, 0 when s holds none
FirstDigit(s) ==
    LET ds == {i \in 1..Len(s) : IsDigit(s[i])}
    IN  IF ds = {} THEN 0 ELSE CHOOSE i \in ds : \A j \in ds : i <= j

FirstRunIncremented(s) ==
    LET i == FirstDigit(s)
    IN  IF i = 0 THEN s \o <<"-", "2">>
        ELSE LET j == RunEnd(s, i)
             IN  SubSeq(s, 1, i - 1)
                   \o FormatNum(ParseNum(SubSeq(s, i, j)) + 1)
                   \o SubSeq(s, j + 1, Len(s))

C10_IncrementsFirstRun ==
    incrOut # <<>> => incrOut = FirstRunIncremented(incrIn)

----------------------------------------------------------------------------
(* C11.  increment_string increments the last number in a string: when s   *)
(* holds two or more separate runs of digits, the result is s with its     *)
(* last run replaced by the decimal rendering of its value plus one, every *)
(* earlier run unchanged.                                                  *)

\* the indices at which a run of digits starts in s
RunStarts(s) ==
    {i \in 1..Len(s) : IsDigit(s[i]) /\ (i = 1 \/ ~IsDigit(s[i - 1]))}

LastRunIncremented(s) ==
    LET i == CHOOSE x \in RunStarts(s) : \A y \in RunStarts(s) : y <= x
        j == RunEnd(s, i)
    IN  SubSeq(s, 1, i - 1)
          \o FormatNum(ParseNum(SubSeq(s, i, j)) + 1)
          \o SubSeq(s, j + 1, Len(s))

C11_IncrementsLastRun ==
    (incrOut # <<>> /\ Cardinality(RunStarts(incrIn)) >= 2)
    => incrOut = LastRunIncremented(incrIn)

----------------------------------------------------------------------------
(* C12.  In every commit that returns Ok, rename_resolving_conflict(src,   *)
(* dst) returned dst when dst did not exist, and otherwise parent(dst)/c   *)
(* with c the first of increment(b), increment(increment(b)), ... (b the   *)
(* basename of dst) that did not exist in that directory; src no longer    *)
(* exists and the returned path holds what was at src.                     *)

\* the src commit hands to rename_resolving_conflict: the only child of the
\* scratch root, or the scratch root
CommitSrc(f, h) ==
    IF Cardinality(Kids(f, h.tmp)) = 1
    THEN CHOOSE c \in Kids(f, h.tmp) : TRUE
    ELSE h.tmp

\* parent(dst)/c, c the n-th of increment(b), increment(increment(b)), ...
Candidate(dst, n) == Append(Parent(dst), IncrTimes(Last(dst), n))

C12_ReturnsFirstFree ==
    [][CommitStep =>
         LET rv == published'[Len(published')]
             src == CommitSrc(fs, helper)
             dst == rv.intended
         IN  /\ ~Exists(fs, dst) => rv.path = dst
             /\ Exists(fs, dst) =>
                   \E n \in 1..(MaxArchives + Cardinality(PreNames)) :
                       /\ rv.path = Candidate(dst, n)
                       /\ ~Exists(fs, Candidate(dst, n))
                       /\ \A m \in 1..(n - 1) : Exists(fs, Candidate(dst, m))
             /\ ~Exists(fs', src)
             /\ SameTree(fs, src, fs', rv.path)]_vars

\* o and o-2 existed: a directory of two entries was published as o-3
C12_Witness ==
    /\ Committed
    /\ Exists(before, Append(Dst, NameO)) /\ Exists(before, Append(Dst, NameO2))
    /\ published[Len(published)].intended = Append(Dst, NameO)
    /\ published[Len(published)].path = Append(Dst, <<"o", "-", "3">>)
    /\ Cardinality(Kids(fs, Append(Dst, <<"o", "-", "3">>))) = 2

----------------------------------------------------------------------------
(* C13.  unpack_archives works on one archive at a time, in input order:   *)
(* nothing of archive j (its scratch, its entries) exists before the       *)
(* archives 1..j-1 have been committed; and in every state, also after the *)
(* run has stopped at an error, each archive committed so far is at the    *)
(* path that was printed for it.                                           *)

C13_OneAtATime ==
    /\ k <= Len(published) + 1
    /\ \A p \in DOMAIN fs : fs[p].data <= Len(published) + 1
    /\ \A i \in 1..Len(published) :
          /\ Exists(fs, published[i].path)
          /\ fs[published[i].path].data = i

\* the first archive is published, the second has written an entry and failed
C13_Witness ==
    /\ pc = "failed"
    /\ k = 2
    /\ Len(published) = 1
    /\ fs[published[1].path].data = 1
    /\ \E p \in DOMAIN fs : fs[p] = Node("file", 2)

----------------------------------------------------------------------------
(* C14.  When main has ended a run over a list of paths, the exit code is  *)
(* non-zero exactly when an unrecoverable error occurred, a path of        *)
(* unsupported format being such an error unless --skip-unknown is given;  *)
(* with the flag nothing is printed for an unsupported path, and in a run  *)
(* without error every supported path has its line of output, in order.    *)

Exited == run.pc = "exit"

Paths == 1..Len(args.files)

Supported(i) == TypeOf(args.files[i]) # None

\* an archive could not be opened or processed (extraction only)
ArchiveError ==
    ~args.analyze /\
      \E i \in Paths : Supported(i) /\ (~args.files[i].opens \/ ~args.files[i].works)

\* a path is of unsupported format and the flag is not given
UnsupportedError == ~args.skip_unknown /\ \E i \in Paths : ~Supported(i)

\* the lines of output are those of the supported paths, in order
SupportedPrinted ==
    LET sup == {i \in Paths : Supported(i)}
    IN  /\ Len(run.stdout) = Cardinality(sup)
        /\ \A j \in 1..Len(run.stdout) :
              /\ run.stdout[j].path \in sup
              /\ \A j2 \in 1..(j - 1) : run.stdout[j2].path < run.stdout[j].path

SkippedSilently ==
    args.skip_unknown =>
        /\ \A j \in 1..Len(run.stdout) : Supported(run.stdout[j].path)
        /\ run.exit = ExitOk => SupportedPrinted

C14_WitnessSkipped ==
    /\ Exited
    /\ ~args.list_formats /\ ~args.analyze /\ args.skip_unknown
    /\ \E i \in Paths : ~Supported(i)
    /\ run.exit = ExitOk
    /\ Len(run.stdout) = 1

----------------------------------------------------------------------------
(* C15.  When opening the file, reading its prefix, or decompressing and   *)
(* reading the second prefix fails, for_path still returns an Option, and  *)
(* it is what the rules of BY_PATTERN give for the file name: the type of  *)
(* the first rule that matches, None when none does.                       *)

\* an I/O error happened while the content was looked at
SniffIoError ==
    \/ ~Readable(sniffIn.bytes)
    \/ sniffOut.behind /\ ~Readable(sniffOut.inner)

C15_SniffErrorsFallBack ==
    (SniffDone /\ SniffIoError)
    => sniffOut.result = determine_by_filename(sniffIn.name)

----------------------------------------------------------------------------
(* C16.  copy_with_progress, whatever the reader gives: an Interrupted     *)
(* read is retried and is never the error returned; any other read error   *)
(* and a write error are returned; at the end of the input it returns the  *)
(* number of bytes written, which is the sum of the lengths of the         *)
(* successful reads and the amount the progress bar was advanced by; the   *)
(* bytes written are the bytes read, once each and in order.               *)

\* the bytes of the successful reads among the first n calls, in order
RECURSIVE BytesRead(_)
BytesRead(n) ==
    IF n = 0 THEN <<>>
    ELSE BytesRead(n - 1) \o (IF reads[n].kind = "Ok" THEN reads[n].data ELSE <<>>)

C16_CopyWithProgress ==
    /\ copy.err # "Interrupted"
    /\ (copy.pc = "returned" /\ copy.err = None) =>
          /\ copy.pos = Len(reads)
          /\ \A i \in 1..Len(reads) : reads[i].kind \in {"Ok", "Interrupted"}
          /\ copy.written = Len(BytesRead(Len(reads)))
          /\ copy.progress = copy.written
          /\ copy.sink = BytesRead(Len(reads))
    /\ (copy.pc = "returned" /\ copy.err # None) =>
          /\ copy.pos >= 1
          /\ \/ copy.err = "Err" /\ reads[copy.pos].kind = "Err"
             \/ copy.err = "write" /\ reads[copy.pos].kind = "Ok"
    /\ copy.pc = "loop" =>
          /\ \A i \in 1..copy.pos : reads[i].kind \in {"Ok", "Interrupted"}
          /\ copy.sink = BytesRead(copy.pos)
          /\ copy.written = Len(copy.sink) /\ copy.progress = copy.written

\* two reads of three bytes with an Interrupted read between them were copied
C16_Witness ==
    /\ copy.pc = "returned" /\ copy.err = None
    /\ reads = << [kind |-> "Ok", data |-> <<"x">>],
                  [kind |-> "Interrupted", data |-> <<>>],
                  [kind |-> "Ok", data |-> <<"y", "z">>] >>
    /\ copy.written = 3
    /\ copy.sink = <<"x", "y", "z">>

----------------------------------------------------------------------------
(* C17.  The loop of rename_resolving_conflict ends when the parent        *)
(* directory holds finitely many names: the candidates it tries are        *)
(* pairwise distinct, so it tries at most one more than the directory      *)
(* holds names, and no round aborts in the parse of the digits or in the   *)
(* addition of one.                                                        *)

C17_LoopTerminates ==
    /\ loop.pc # "aborted"
    /\ \A i, j \in 1..Len(loop.tried) : i # j => loop.tried[i] # loop.tried[j]
    /\ Len(loop.tried) <= Cardinality(taken) + 1

\* the same without the rounds that abort: what holds of the loop as it is
C17_DistinctCandidates ==
    /\ \A i, j \in 1..Len(loop.tried) : i # j => loop.tried[i] # loop.tried[j]
    /\ \A i \in 1..Len(loop.tried) :
          i < Len(loop.tried) => loop.tried[i] \in taken
    /\ loop.pc = "returned" => loop.tried[Len(loop.tried)] \notin taken
    /\ Len(loop.tried) <= Cardinality(taken) + 1

----------------------------------------------------------------------------
(* C18.  When UnpackHelper::create has returned Ok, the scratch root is an *)
(* empty directory, in the temp area when the probe succeeded and in the   *)
(* destination when it failed; and when the probe failed, the temp area    *)
(* holds no directory the probe made.                                      *)

C18_ScratchCreated ==
    [][(pc \in {"start", "committed"} /\ pc' = "unpacking") =>
         /\ IsDir(fs', helper'.tmp)
         /\ Kids(fs', helper'.tmp) = {}
         /\ Parent(helper'.tmp) \in {TempDir, Dst}
         /\ Parent(helper'.tmp) = Dst => Kids(fs', TempDir) = Kids(fs, TempDir)]_vars

----------------------------------------------------------------------------
Next ==
    \/ Create(WiredReaders)
    \/ UnpackEntry
    \/ UnpackError
    \/ Commit

\* unpack_archives over archives of the types ArchiveType::open can open
Spec == UnboxInit /\ [][Next]_vars

ReadersNext ==
    \/ Create(AllReaders)
    \/ UnpackEntry
    \/ UnpackError
    \/ Commit

\* the same loop over every reader of src/src/formats, CabArchive included
ReadersSpec == UnboxInit /\ [][ReadersNext]_vars

IncrNext == IncrCall

\* increment_string applied to every string of Strings
IncrSpec == IncrInit /\ [][IncrNext]_vars

SniffNext == SniffCall

\* for_path applied to every input of SniffInit
SniffSpec == SniffInit /\ [][SniffNext]_vars

MainNext ==
    \/ ListFormats
    \/ AnalyzeFile
    \/ OpenFile
    \/ UnpackArchive

\* main over every command line of MainInit
MainSpec == MainInit /\ [][MainNext]_vars

CopyNext == CopyRound

\* copy_with_progress on every reader of CopyInit
CopySpec == CopyInit /\ [][CopyNext]_vars

LoopNext == LoopRound

\* the loop of rename_resolving_conflict for every dst of LoopInit
LoopSpec == LoopInit /\ [][LoopNext]_vars

====
